---- MODULE Spec2Model ----
(***************************************************************************)
(* Sokoban solver (src/src/lib.ts): parseSokoban and the breadth-first     *)
(* solve, with its inner serialize / deserialize / isInvalid / nextState / *)
(* isComplete.  JavaScript strings are sequences of one-character strings; *)
(* a Point is the pair <<x, y>>.                                           *)
(***************************************************************************)
EXTENDS Integers, Sequences, FiniteSets, TLC

VARIABLES
  input,        \* the text handed to parseSokoban
  pc,           \* position of the program: "main", "while", "for", "moves", "done"
  map,          \* SokobanMap returned by parseSokoban
  initialState, \* SokobanState returned by parseSokoban
  distance,     \* solve: let distance
  visited,      \* solve: Map<string, string>, as a function key -> path
  current,      \* solve: frontier of the layer, a sequence of keys
  next,         \* solve: frontier being built
  idx,          \* solve: position of the for-of loop in current (1-based)
  state,        \* solve: the deserialized state being expanded
  outcome,      \* "running", "parse_error", "path" or "null"
  result,       \* the returned path when outcome = "path"
  cstate,       \* codec round trip: the state given
  cser,         \* codec round trip: serialize(cstate)
  cback,        \* codec round trip: deserialize(cser)
  cpc,          \* codec round trip: "start", "serialized", "deserialized", "off"
  hooks,        \* solve: which of the optional hooks the caller passed
  calls,        \* solve: the hook invocations so far, in order
  inst          \* two interleaved solve calls: the locals of each call

vars == <<input, pc, map, initialState, distance, visited, current, next, idx,
          state, outcome, result, cstate, cser, cback, cpc, hooks, calls,
          inst>>

solveVars == <<input, pc, map, initialState, distance, visited, current, next,
               idx, state, outcome, result, hooks, calls, inst>>

codecVars == <<cstate, cser, cback, cpc>>

(***************************************************************************)
(* Bounds of the inputs.                                                   *)
(***************************************************************************)
MaxBoxes == 2
MaxGoals == 2
MaxTextLen == 4
MaxCodecBoxes == 2

MaxPairBoxes == 1

(***************************************************************************)
(* Strings.                                                                *)
(***************************************************************************)
Digits == <<"0", "1", "2", "3", "4", "5", "6", "7", "8", "9">>

RECURSIVE NatToStr(_)
NatToStr(n) ==
  IF n < 10 THEN <<Digits[n + 1]>>
  ELSE NatToStr(n \div 10) \o <<Digits[(n % 10) + 1]>>

\* Number -> string conversion of a template literal `${n}`.
NumToStr(n) == IF n < 0 THEN <<"-">> \o NatToStr(-n) ELSE NatToStr(n)

\* `${x},${y}`
serializePoint(p) == NumToStr(p[1]) \o <<",">> \o NumToStr(p[2])

RECURSIVE join(_, _)
join(parts, sep) ==
  IF Len(parts) = 0 THEN <<>>
  ELSE IF Len(parts) = 1 THEN parts[1]
  ELSE parts[1] \o <<sep>> \o join(Tail(parts), sep)

RECURSIVE splitFrom(_, _, _, _)
splitFrom(str, sep, piece, acc) ==
  IF Len(str) = 0 THEN Append(acc, piece)
  ELSE IF Head(str) = sep THEN splitFrom(Tail(str), sep, <<>>, Append(acc, piece))
  ELSE splitFrom(Tail(str), sep, Append(piece, Head(str)), acc)

\* String.prototype.split with a one-character separator.
split(str, sep) == splitFrom(str, sep, <<>>, <<>>)

DigitValue(c) == CHOOSE d \in 0..9 : Digits[d + 1] = c

IsDigit(c) == \E d \in 0..9 : Digits[d + 1] = c

RECURSIVE parseDigits(_, _)
parseDigits(str, acc) ==
  IF Len(str) = 0 \/ ~IsDigit(Head(str)) THEN acc
  ELSE parseDigits(Tail(str), 10 * acc + DigitValue(Head(str)))

\* parseInt on an optional sign followed by at least one digit; it reads the
\* longest run of digits and ignores what follows.
parseInt(str) ==
  IF Len(str) > 0 /\ Head(str) = "-" THEN 0 - parseDigits(Tail(str), 0)
  ELSE parseDigits(str, 0)

IsSpace(c) == c \in {" ", "\t", "\r", "\n"}

RECURSIVE trimStart(_)
trimStart(str) ==
  IF Len(str) > 0 /\ IsSpace(Head(str)) THEN trimStart(Tail(str)) ELSE str

RECURSIVE trimEnd(_)
trimEnd(str) ==
  IF Len(str) > 0 /\ IsSpace(str[Len(str)])
  THEN trimEnd(SubSeq(str, 1, Len(str) - 1)) ELSE str

trim(str) == trimEnd(trimStart(str))

\* input.split(/\r*\n/).map(trim).filter(nonempty): the carriage returns that
\* the separator swallows are at the end of a piece, where trim removes them.
splitRows(text) ==
  LET pieces  == split(text, "\n")
      trimmed == [i \in 1..Len(pieces) |-> trim(pieces[i])]
  IN SelectSeq(trimmed, LAMBDA line : Len(line) > 0)

(***************************************************************************)
(* Box order: (ay - by || ax - bx).                                        *)
(***************************************************************************)
boxBefore(a, b) == a[2] < b[2] \/ (a[2] = b[2] /\ a[1] <= b[1])

RECURSIVE insertBox(_, _)
insertBox(sorted, b) ==
  IF Len(sorted) = 0 THEN <<b>>
  ELSE IF boxBefore(sorted[Len(sorted)], b) THEN Append(sorted, b)
  ELSE Append(insertBox(SubSeq(sorted, 1, Len(sorted) - 1), b), sorted[Len(sorted)])

RECURSIVE sortBoxes(_)
sortBoxes(boxes) ==
  IF Len(boxes) = 0 THEN <<>>
  ELSE insertBox(sortBoxes(SubSeq(boxes, 1, Len(boxes) - 1)), boxes[Len(boxes)])

keySet(points) == {serializePoint(points[i]) : i \in 1..Len(points)}

(***************************************************************************)
(* parseSokoban.                                                           *)
(***************************************************************************)
Tiles == {".", "b", "w", "#", "+", "B", "W"}

\* rows[y][x]
tileAt(rows, p) == rows[p[2] + 1][p[1] + 1]

\* The cells in the order of the two nested loops: y outer, x inner.
scanOrder(width, height) ==
  [i \in 1..(width * height) |-> <<(i - 1) % width, (i - 1) \div width>>]

\* floodFill without the step to the row above.
RECURSIVE floodFill_noUp(_, _, _, _, _, _)
floodFill_noUp(x, y, width, height, wallSet, reachable) ==
  IF serializePoint(<<x, y>>) \in wallSet THEN reachable
  ELSE LET r0 == reachable \cup {<<x, y>>}
           r1 == IF x > 0 /\ <<x - 1, y>> \notin r0
                 THEN floodFill_noUp(x - 1, y, width, height, wallSet, r0) ELSE r0
           r2 == IF x < width - 1 /\ <<x + 1, y>> \notin r1
                 THEN floodFill_noUp(x + 1, y, width, height, wallSet, r1) ELSE r1
       IN IF y < height - 1 /\ <<x, y + 1>> \notin r2
          THEN floodFill_noUp(x, y + 1, width, height, wallSet, r2) ELSE r2

RECURSIVE floodFill(_, _, _, _, _, _)
floodFill(x, y, width, height, wallSet, reachable) ==
  IF serializePoint(<<x, y>>) \in wallSet THEN reachable
  ELSE LET r0 == reachable \cup {<<x, y>>}
           r1 == IF x > 0 /\ <<x - 1, y>> \notin r0
                 THEN floodFill(x - 1, y, width, height, wallSet, r0) ELSE r0
           r2 == IF x < width - 1 /\ <<x + 1, y>> \notin r1
                 THEN floodFill(x + 1, y, width, height, wallSet, r1) ELSE r1
           r3 == IF y > 0 /\ <<x, y - 1>> \notin r2
                 THEN floodFill(x, y - 1, width, height, wallSet, r2) ELSE r2
       IN IF y < height - 1 /\ <<x, y + 1>> \notin r3
          THEN floodFill(x, y + 1, width, height, wallSet, r3) ELSE r3

NoMap == [width |-> 0, height |-> 0, wallSet |-> {}, goalSet |-> {}]

NoState == [player |-> <<0, 0>>, boxes |-> <<>>, boxSet |-> {}]

\* The result of parseSokoban: ok = FALSE stands for null.
parseSokoban(text) ==
  LET rows   == splitRows(text)
      height == Len(rows)
      failed == [ok |-> FALSE, map |-> NoMap, state |-> NoState]
  IN IF height = 0 THEN failed
     ELSE LET width == Len(rows[1])
          IN IF \E y \in 1..height : Len(rows[y]) # width THEN failed
             ELSE LET cells   == scanOrder(width, height)
                      walls   == SelectSeq(cells, LAMBDA p : tileAt(rows, p) = "#")
                      goals   == SelectSeq(cells, LAMBDA p : tileAt(rows, p) \in {"+", "B", "W"})
                      boxes   == SelectSeq(cells, LAMBDA p : tileAt(rows, p) \in {"b", "B"})
                      players == SelectSeq(cells, LAMBDA p : tileAt(rows, p) \in {"w", "W"})
                  IN IF \E i \in 1..Len(cells) : tileAt(rows, cells[i]) \notin Tiles THEN failed
                     ELSE IF Len(players) = 0 THEN failed
                     ELSE LET player    == players[Len(players)]
                              wallSet   == keySet(walls)
                              reachable == floodFill(player[1], player[2], width, height, wallSet, {})
                          IN IF \E i \in 1..Len(boxes) : boxes[i] \notin reachable THEN failed
                             ELSE IF \E i \in 1..Len(goals) : goals[i] \notin reachable THEN failed
                             ELSE [ok    |-> TRUE,
                                   map   |-> [width |-> width, height |-> height,
                                              wallSet |-> wallSet, goalSet |-> keySet(goals)],
                                   state |-> [player |-> player,
                                              boxes  |-> sortBoxes(boxes),
                                              boxSet |-> keySet(boxes)]]

(***************************************************************************)
(* solve: the inner functions.                                             *)
(***************************************************************************)
serialize(st) ==
  join([i \in 1..(Len(st.boxes) + 1) |->
          IF i = 1 THEN serializePoint(st.player) ELSE serializePoint(st.boxes[i - 1])],
       "/")

deserializePoint(point) ==
  LET tmp == split(point, ",") IN <<parseInt(tmp[1]), parseInt(tmp[2])>>

\* deserialize without the sort of the boxes.
deserialize_unsorted(str) ==
  LET points == split(str, "/")
      parsed == [i \in 1..Len(points) |-> deserializePoint(points[i])]
      boxes  == Tail(parsed)
  IN [player |-> parsed[1], boxes |-> boxes, boxSet |-> keySet(boxes)]

deserialize(str) ==
  LET points == split(str, "/")
      parsed == [i \in 1..Len(points) |-> deserializePoint(points[i])]
      boxes  == sortBoxes(Tail(parsed))
  IN [player |-> parsed[1], boxes |-> boxes, boxSet |-> keySet(boxes)]

isWallOrBox(m, boxSet, p) ==
  serializePoint(p) \in m.wallSet \/ serializePoint(p) \in boxSet

isOffGoalBox(m, boxSet, p) ==
  serializePoint(p) \in boxSet /\ serializePoint(p) \notin m.goalSet

\* One iteration of the scan, for the window whose bottom-right cell is (x, y).
\* The second test of the second condition reads column 1, as the source does.
windowInvalid(m, boxSet, x, y) ==
  /\ isWallOrBox(m, boxSet, <<x - 1, y - 1>>)
  /\ isWallOrBox(m, boxSet, <<x, y - 1>>)
  /\ isWallOrBox(m, boxSet, <<x - 1, y>>)
  /\ isWallOrBox(m, boxSet, <<x, y>>)
  /\ \/ isOffGoalBox(m, boxSet, <<x - 1, y - 1>>)
     \/ isOffGoalBox(m, boxSet, <<1, y - 1>>)
     \/ isOffGoalBox(m, boxSet, <<x - 1, y>>)
     \/ isOffGoalBox(m, boxSet, <<x, y>>)

isInvalid(m, st) ==
  \E y \in 1..(m.height - 1) : \E x \in 1..(m.width - 1) :
     windowInvalid(m, st.boxSet, x, y)

(***************************************************************************)
(* isInvalid of src/src/main.ts: the frozen window, each cell read at its  *)
(* own coordinates, and the four corner tests.                             *)
(***************************************************************************)
frozenWindowMain(m, boxSet, x, y) ==
  /\ isWallOrBox(m, boxSet, <<x - 1, y - 1>>)
  /\ isWallOrBox(m, boxSet, <<x, y - 1>>)
  /\ isWallOrBox(m, boxSet, <<x - 1, y>>)
  /\ isWallOrBox(m, boxSet, <<x, y>>)
  /\ \/ isOffGoalBox(m, boxSet, <<x - 1, y - 1>>)
     \/ isOffGoalBox(m, boxSet, <<x, y - 1>>)
     \/ isOffGoalBox(m, boxSet, <<x - 1, y>>)
     \/ isOffGoalBox(m, boxSet, <<x, y>>)

\* cornerMain with || between the two walls of each test.
cornerMain_eitherWall(m, boxSet, x, y) ==
  \/ /\ isOffGoalBox(m, boxSet, <<x - 1, y - 1>>)
     /\ \/ serializePoint(<<x, y - 1>>) \in m.wallSet
        \/ serializePoint(<<x - 1, y>>) \in m.wallSet
  \/ /\ isOffGoalBox(m, boxSet, <<x, y - 1>>)
     /\ \/ serializePoint(<<x - 1, y - 1>>) \in m.wallSet
        \/ serializePoint(<<x, y>>) \in m.wallSet
  \/ /\ isOffGoalBox(m, boxSet, <<x - 1, y>>)
     /\ \/ serializePoint(<<x, y>>) \in m.wallSet
        \/ serializePoint(<<x - 1, y - 1>>) \in m.wallSet
  \/ /\ isOffGoalBox(m, boxSet, <<x, y>>)
     /\ \/ serializePoint(<<x - 1, y>>) \in m.wallSet
        \/ serializePoint(<<x, y - 1>>) \in m.wallSet

\* The four tests after the window test: an off-goal box of the window with
\* walls on its two neighbours inside the window.
cornerMain(m, boxSet, x, y) ==
  \/ /\ isOffGoalBox(m, boxSet, <<x - 1, y - 1>>)
     /\ serializePoint(<<x, y - 1>>) \in m.wallSet
     /\ serializePoint(<<x - 1, y>>) \in m.wallSet
  \/ /\ isOffGoalBox(m, boxSet, <<x, y - 1>>)
     /\ serializePoint(<<x - 1, y - 1>>) \in m.wallSet
     /\ serializePoint(<<x, y>>) \in m.wallSet
  \/ /\ isOffGoalBox(m, boxSet, <<x - 1, y>>)
     /\ serializePoint(<<x, y>>) \in m.wallSet
     /\ serializePoint(<<x - 1, y - 1>>) \in m.wallSet
  \/ /\ isOffGoalBox(m, boxSet, <<x, y>>)
     /\ serializePoint(<<x - 1, y>>) \in m.wallSet
     /\ serializePoint(<<x, y - 1>>) \in m.wallSet

isInvalidMain(m, st) ==
  \E y \in 1..(m.height - 1) : \E x \in 1..(m.width - 1) :
     frozenWindowMain(m, st.boxSet, x, y) \/ cornerMain(m, st.boxSet, x, y)

\* pushBoxes without the filter: the pushed box also stays where it was.
pushBoxes_keepOld(boxes, from, to) ==
  sortBoxes(Append(boxes, to))

\* pushBoxes without the sort: the pushed box stays last.
pushBoxes_unsorted(boxes, from, to) ==
  Append(SelectSeq(boxes, LAMBDA b : b[1] # from[1] \/ b[2] # from[2]), to)

\* boxes.filter(...), push, sort
pushBoxes(boxes, from, to) ==
  sortBoxes(Append(SelectSeq(boxes, LAMBDA b : b[1] # from[1] \/ b[2] # from[2]), to))

\* pushBlocked without the test for another box on the landing cell.
pushBlocked_wallOnly(m, st, landing) ==
  serializePoint(landing) \in m.wallSet

\* The two rejections of a push.
pushBlocked(m, st, landing) ==
  \/ serializePoint(landing) \in m.wallSet
  \/ serializePoint(landing) \in st.boxSet

Null == [ok |-> FALSE, player |-> <<0, 0>>, boxes |-> <<>>, boxSet |-> {}]

Some(st) == [ok |-> TRUE, player |-> st.player, boxes |-> st.boxes, boxSet |-> st.boxSet]

nextState(m, st, d) ==
  LET nextX == st.player[1] + d[1]
      nextY == st.player[2] + d[2]
  IN IF nextX < 0 \/ nextX >= m.width \/ nextY < 0 \/ nextY >= m.height THEN Null
     ELSE IF serializePoint(<<nextX, nextY>>) \in m.wallSet THEN Null
     ELSE IF serializePoint(<<nextX, nextY>>) \in st.boxSet
          THEN LET landing == <<nextX + d[1], nextY + d[2]>>
               IN IF pushBlocked(m, st, landing) THEN Null
                  ELSE LET newBoxes == pushBoxes(st.boxes, <<nextX, nextY>>, landing)
                       IN [ok |-> TRUE, player |-> <<nextX, nextY>>,
                           boxes |-> newBoxes, boxSet |-> keySet(newBoxes)]
          ELSE LET moved == [player |-> <<nextX, nextY>>, boxes |-> st.boxes,
                             boxSet |-> st.boxSet]
               IN IF isInvalid(m, moved) THEN Null ELSE Some(moved)

\* isComplete with some() in place of every().
isComplete_some(m, st) ==
  \E i \in 1..Len(st.boxes) : serializePoint(st.boxes[i]) \in m.goalSet

isComplete(m, st) ==
  \A i \in 1..Len(st.boxes) : serializePoint(st.boxes[i]) \in m.goalSet

\* The four moves with the S block before the A block.
Moves_SbeforeA ==
  <<[d |-> <<0, -1>>, code |-> "W"], [d |-> <<0, 1>>, code |-> "S"],
    [d |-> <<-1, 0>>, code |-> "A"], [d |-> <<1, 0>>, code |-> "D"]>>

\* The four moves in the order the loop body tries them.
Moves == <<[d |-> <<0, -1>>, code |-> "W"], [d |-> <<-1, 0>>, code |-> "A"],
           [d |-> <<0, 1>>, code |-> "S"], [d |-> <<1, 0>>, code |-> "D"]>>

\* tryMove returning the path of the expanded state, without the move's code.
tryMove_noCode(m, st, path, mv, acc) ==
  IF acc.returned THEN acc
  ELSE LET w == nextState(m, st, mv.d)
       IN IF w.ok /\ serialize(w) \notin DOMAIN acc.visited
          THEN IF isComplete(m, w)
               THEN [acc EXCEPT !.returned = TRUE, !.result = path]
               ELSE [acc EXCEPT
                       !.visited = [k \in DOMAIN acc.visited \cup {serialize(w)} |->
                                      IF k = serialize(w) THEN Append(path, mv.code)
                                      ELSE acc.visited[k]],
                       !.next = Append(acc.next, serialize(w))]
          ELSE acc

\* tryMove without the visited.has test.
tryMove_noHas(m, st, path, mv, acc) ==
  IF acc.returned THEN acc
  ELSE LET w == nextState(m, st, mv.d)
       IN IF w.ok
          THEN IF isComplete(m, w)
               THEN [acc EXCEPT !.returned = TRUE, !.result = Append(path, mv.code)]
               ELSE [acc EXCEPT
                       !.visited = [k \in DOMAIN acc.visited \cup {serialize(w)} |->
                                      IF k = serialize(w) THEN Append(path, mv.code)
                                      ELSE acc.visited[k]],
                       !.next = Append(acc.next, serialize(w))]
          ELSE acc

\* One of the four blocks of the loop body.  acc carries visited, next and
\* whether an earlier block has already returned.
tryMove(m, st, path, mv, acc) ==
  IF acc.returned THEN acc
  ELSE LET w == nextState(m, st, mv.d)
       IN IF w.ok /\ serialize(w) \notin DOMAIN acc.visited
          THEN IF isComplete(m, w)
               THEN [acc EXCEPT !.returned = TRUE, !.result = Append(path, mv.code)]
               ELSE [acc EXCEPT
                       !.visited = [k \in DOMAIN acc.visited \cup {serialize(w)} |->
                                      IF k = serialize(w) THEN Append(path, mv.code)
                                      ELSE acc.visited[k]],
                       !.next = Append(acc.next, serialize(w))]
          ELSE acc

RECURSIVE tryMoves(_, _, _, _, _)
tryMoves(m, st, path, i, acc) ==
  IF i > Len(Moves) THEN acc
  ELSE tryMoves(m, st, path, i + 1, tryMove(m, st, path, Moves[i], acc))

(***************************************************************************)
(* The inputs: wall layouts, on which up to MaxBoxes boxes, up to MaxGoals *)
(* goals and the player are placed, written as the text of the puzzle.     *)
(***************************************************************************)
Layouts ==
  << \* a 2x2 block of walls in columns 2-3, a free column 1
     << <<"#", ".", ".", ".">>,
        <<"#", ".", "#", "#">>,
        <<"#", ".", "#", "#">> >>,
     \* a corridor whose ends are the grid edge: nothing encloses the floor
     << <<".", ".", ".", ".", ".">> >>,
     \* cell (1,1) has a wall above and a wall to its left, (0,0) is floor
     << <<".", "#", ".">>,
        <<"#", ".", ".">> >>,
     \* a room enclosed by walls, with one corner at column 2
     << <<"#", "#", "#", "#", "#">>,
        <<"#", ".", ".", ".", "#">>,
        <<"#", "#", ".", ".", "#">>,
        <<"#", "#", "#", "#", "#">> >> >>

FreeCells(layout) ==
  {p \in (0..(Len(layout[1]) - 1)) \X (0..(Len(layout) - 1)) : tileAt(layout, p) = "."}

TileOf(layout, boxes, goals, player, p) ==
  IF tileAt(layout, p) = "#" THEN "#"
  ELSE IF p = player THEN (IF p \in goals THEN "W" ELSE "w")
  ELSE IF p \in boxes THEN (IF p \in goals THEN "B" ELSE "b")
  ELSE IF p \in goals THEN "+" ELSE "."

Render(layout, boxes, goals, player) ==
  join([y \in 1..Len(layout) |->
          [x \in 1..Len(layout[1]) |-> TileOf(layout, boxes, goals, player, <<x - 1, y - 1>>)]],
       "\n")

Inputs ==
  UNION {
    UNION {
      UNION {
        {Render(Layouts[l], boxes, goals, player) : player \in FreeCells(Layouts[l]) \ boxes}
        : goals \in {g \in SUBSET FreeCells(Layouts[l]) : Cardinality(g) <= MaxGoals}}
      : boxes \in {b \in SUBSET FreeCells(Layouts[l]) : Cardinality(b) <= MaxBoxes}}
    : l \in 1..Len(Layouts)}

CodecCoords == {-1, 0, 3, 10}

CodecPoints == CodecCoords \X CodecCoords

CodecBoxSeqs == UNION {[1..n -> CodecPoints] : n \in 0..MaxCodecBoxes}

(***************************************************************************)
(* The program: main calls parseSokoban and solve.                         *)
(***************************************************************************)
CodecOff ==
  /\ cstate = NoState
  /\ cser = <<>>
  /\ cback = NoState
  /\ cpc = "off"

Init ==
  /\ input \in Inputs
  /\ pc = "main"
  /\ map = NoMap
  /\ initialState = NoState
  /\ distance = 0
  /\ visited = <<>>
  /\ current = <<>>
  /\ next = <<>>
  /\ idx = 0
  /\ state = NoState
  /\ outcome = "running"
  /\ result = <<>>
  /\ hooks = {"onDistance"}
  /\ calls = <<>>
  /\ inst = <<>>
  /\ CodecOff

\* parseSokoban returns null: "Could not parse input".
MainParseError ==
  /\ pc = "main"
  /\ ~parseSokoban(input).ok
  /\ pc' = "done"
  /\ outcome' = "parse_error"
  /\ UNCHANGED <<input, map, initialState, distance, visited, current, next,
                 idx, state, result>>
  /\ UNCHANGED codecVars
  /\ UNCHANGED <<hooks, calls, inst>>

\* parseSokoban succeeds and solve runs up to its loop.
MainSolve ==
  /\ pc = "main"
  /\ parseSokoban(input).ok
  /\ LET parsed == parseSokoban(input)
     IN /\ map' = parsed.map
        /\ initialState' = parsed.state
        /\ distance' = 0
        /\ visited' = [k \in {serialize(parsed.state)} |-> <<>>]
        /\ current' = <<serialize(parsed.state)>>
  /\ pc' = "while"
  /\ UNCHANGED <<input, next, idx, state, outcome, result>>
  /\ UNCHANGED codecVars
  /\ UNCHANGED <<hooks, calls, inst>>

\* while (current.length): the loop is entered, onDistance is awaited.
WhileEnter ==
  /\ pc = "while"
  /\ Len(current) > 0
  /\ next' = <<>>
  /\ idx' = 1
  /\ pc' = "for"
  /\ UNCHANGED <<input, map, initialState, distance, visited, current, state,
                 outcome, result>>
  /\ UNCHANGED codecVars
  /\ calls' = IF "onDistance" \in hooks
               THEN Append(calls, [hook |-> "onDistance", arg |-> distance])
               ELSE calls
  /\ UNCHANGED <<hooks, inst>>

\* The frontier is empty: return null.
ReturnNull ==
  /\ pc = "while"
  /\ Len(current) = 0
  /\ outcome' = "null"
  /\ pc' = "done"
  /\ UNCHANGED <<input, map, initialState, distance, visited, current, next,
                 idx, state, result>>
  /\ UNCHANGED codecVars
  /\ UNCHANGED <<hooks, calls, inst>>

\* for (const serializedState of current): deserialize, onStep is awaited.
ForStep ==
  /\ pc = "for"
  /\ idx <= Len(current)
  /\ state' = deserialize(current[idx])
  /\ pc' = "moves"
  /\ UNCHANGED <<input, map, initialState, distance, visited, current, next,
                 idx, outcome, result>>
  /\ UNCHANGED codecVars
  /\ calls' = IF "onStep" \in hooks
               THEN Append(calls, [hook |-> "onStep", arg |-> deserialize(current[idx])])
               ELSE calls
  /\ UNCHANGED <<hooks, inst>>

\* The four moves of the state: a complete new state returns its path.
MovesReturn ==
  /\ pc = "moves"
  /\ LET acc == tryMoves(map, state, visited[current[idx]], 1,
                         [visited |-> visited, next |-> next,
                          returned |-> FALSE, result |-> <<>>])
     IN /\ acc.returned
        /\ result' = acc.result
  /\ outcome' = "path"
  /\ pc' = "done"
  /\ UNCHANGED <<input, map, initialState, distance, visited, current, next,
                 idx, state>>
  /\ UNCHANGED codecVars
  /\ UNCHANGED <<hooks, calls, inst>>

\* MovesContinue that leaves the loop index where it is.
MovesContinue_sameIdx ==
  /\ pc = "moves"
  /\ LET acc == tryMoves(map, state, visited[current[idx]], 1,
                         [visited |-> visited, next |-> next,
                          returned |-> FALSE, result |-> <<>>])
     IN /\ ~acc.returned
        /\ visited' = acc.visited
        /\ next' = acc.next
  /\ pc' = "for"
  /\ UNCHANGED <<input, map, initialState, distance, current, idx, state, outcome, result>>
  /\ UNCHANGED codecVars
  /\ UNCHANGED <<hooks, calls, inst>>

\* The four moves of the state: the new states join visited and next.
MovesContinue ==
  /\ pc = "moves"
  /\ LET acc == tryMoves(map, state, visited[current[idx]], 1,
                         [visited |-> visited, next |-> next,
                          returned |-> FALSE, result |-> <<>>])
     IN /\ ~acc.returned
        /\ visited' = acc.visited
        /\ next' = acc.next
  /\ idx' = idx + 1
  /\ pc' = "for"
  /\ UNCHANGED <<input, map, initialState, distance, current, state, outcome, result>>
  /\ UNCHANGED codecVars
  /\ UNCHANGED <<hooks, calls, inst>>

\* LayerEnd without distance++.
LayerEnd_noIncrement ==
  /\ pc = "for"
  /\ idx > Len(current)
  /\ current' = next
  /\ pc' = "while"
  /\ UNCHANGED <<input, map, initialState, distance, visited, next, idx, state,
                 outcome, result>>
  /\ UNCHANGED codecVars
  /\ UNCHANGED <<hooks, calls, inst>>

\* The layer is finished: current = next; distance++.
LayerEnd ==
  /\ pc = "for"
  /\ idx > Len(current)
  /\ current' = next
  /\ distance' = distance + 1
  /\ pc' = "while"
  /\ UNCHANGED <<input, map, initialState, visited, next, idx, state, outcome, result>>
  /\ UNCHANGED codecVars
  /\ UNCHANGED <<hooks, calls, inst>>

Next ==
  \/ MainParseError
  \/ MainSolve
  \/ WhileEnter
  \/ ReturnNull
  \/ ForStep
  \/ MovesReturn
  \/ MovesContinue
  \/ LayerEnd

Spec == Init /\ [][Next]_vars

\* main of src/src/main.ts passes both hooks.
HooksInit ==
  /\ input \in Inputs
  /\ pc = "main"
  /\ map = NoMap
  /\ initialState = NoState
  /\ distance = 0
  /\ visited = <<>>
  /\ current = <<>>
  /\ next = <<>>
  /\ idx = 0
  /\ state = NoState
  /\ outcome = "running"
  /\ result = <<>>
  /\ hooks = {"onStep", "onDistance"}
  /\ calls = <<>>
  /\ inst = <<>>
  /\ CodecOff

SpecHooks == HooksInit /\ [][Next]_vars

(***************************************************************************)
(* Progress.  The hooks return and the event loop resumes every awaited    *)
(* continuation, so the program does not stay for ever at a position of    *)
(* the code it can leave.  Every step of Next leaves the position it is    *)
(* taken at, and some step of Next is possible at every position but       *)
(* "done", so leaving the position is what a step of Next amounts to.      *)
(***************************************************************************)
Positions == {"main", "while", "for", "moves", "done"}

Resume == pc # "done" /\ pc' \in Positions

SpecFair == Spec /\ WF_pc(Resume)

(***************************************************************************)
(* The round trip through serialize and deserialize on its own.            *)
(***************************************************************************)
SolveOff ==
  /\ input = <<>>
  /\ pc = "off"
  /\ map = NoMap
  /\ initialState = NoState
  /\ distance = 0
  /\ visited = <<>>
  /\ current = <<>>
  /\ next = <<>>
  /\ idx = 0
  /\ state = NoState
  /\ outcome = "off"
  /\ result = <<>>
  /\ hooks = {}
  /\ calls = <<>>
  /\ inst = <<>>

CodecInit ==
  /\ SolveOff
  /\ \E player \in CodecPoints : \E boxes \in CodecBoxSeqs :
        cstate = [player |-> player, boxes |-> boxes, boxSet |-> keySet(boxes)]
  /\ cser = <<>>
  /\ cback = NoState
  /\ cpc = "start"

CodecSerialize ==
  /\ cpc = "start"
  /\ cser' = serialize(cstate)
  /\ cpc' = "serialized"
  /\ UNCHANGED <<cstate, cback>>
  /\ UNCHANGED solveVars

CodecDeserialize ==
  /\ cpc = "serialized"
  /\ cback' = deserialize(cser)
  /\ cpc' = "deserialized"
  /\ UNCHANGED <<cstate, cser>>
  /\ UNCHANGED solveVars

CodecNext == CodecSerialize \/ CodecDeserialize

SpecCodec == CodecInit /\ [][CodecNext]_vars

(***************************************************************************)
(* The rules of Sokoban, stated on configurations (player, set of boxes)   *)
(* of the parsed map, independently of the solver's data structures.       *)
(***************************************************************************)
Grid == (0..(map.width - 1)) \X (0..(map.height - 1))

IsWall(p) == serializePoint(p) \in map.wallSet

IsGoal(p) == serializePoint(p) \in map.goalSet

PointsOf(boxes) == {boxes[i] : i \in 1..Len(boxes)}

ConfigOf(st) == [p |-> st.player, b |-> PointsOf(st.boxes)]

Directions == {<<0, -1>>, <<-1, 0>>, <<0, 1>>, <<1, 0>>}

Plus(p, d) == <<p[1] + d[1], p[2] + d[2]>>

\* A legal step: the player stays on the grid and off the walls; a box is
\* pushed only into a cell of the grid that is neither a wall nor a box.
Legal(cfg, d) ==
  LET t == Plus(cfg.p, d)
  IN /\ t \in Grid
     /\ ~IsWall(t)
     /\ t \in cfg.b => /\ Plus(t, d) \in Grid
                       /\ ~IsWall(Plus(t, d))
                       /\ Plus(t, d) \notin cfg.b

Step(cfg, d) ==
  LET t == Plus(cfg.p, d)
  IN IF t \in cfg.b THEN [p |-> t, b |-> (cfg.b \ {t}) \cup {Plus(t, d)}]
     ELSE [p |-> t, b |-> cfg.b]

Successors(cfg) == {Step(cfg, d) : d \in {e \in Directions : Legal(cfg, e)}}

Complete(cfg) == \A q \in cfg.b : IsGoal(q)

\* The least number of legal steps from a configuration of the frontier to a
\* complete one, counted from depth; -1 when there is none.
RECURSIVE LeastMoves(_, _, _)
LeastMoves(frontier, seen, depth) ==
  IF \E c \in frontier : Complete(c) THEN depth
  ELSE LET fresh == (UNION {Successors(c) : c \in frontier}) \ seen
       IN IF fresh = {} THEN 0 - 1
          ELSE LeastMoves(fresh, seen \cup fresh, depth + 1)

MinMoves(cfg) == LeastMoves({cfg}, {cfg}, 0)

Solvable(cfg) == MinMoves(cfg) >= 0

\* Some sequence of one or more legal steps ends in a complete configuration.
SolvableByMoves(cfg) == \E c \in Successors(cfg) : Solvable(c)

CodeOf(d) ==
  IF d = <<0, -1>> THEN "W" ELSE IF d = <<-1, 0>> THEN "A"
  ELSE IF d = <<0, 1>> THEN "S" ELSE "D"

DirOf(c) == CHOOSE d \in Directions : CodeOf(d) = c

\* Replaying a move string: the configuration reached, or ok = FALSE at the
\* first illegal step.
RECURSIVE Replay(_, _)
Replay(cfg, path) ==
  IF Len(path) = 0 THEN [ok |-> TRUE, cfg |-> cfg]
  ELSE IF Legal(cfg, DirOf(Head(path))) THEN Replay(Step(cfg, DirOf(Head(path))), Tail(path))
  ELSE [ok |-> FALSE, cfg |-> cfg]

Solving == pc \in {"while", "for", "moves"} \/ outcome \in {"path", "null"}

\* The states the search holds at this point: the initial state, the state
\* being expanded, and the states nextState returns for it.
Returned(st) == {nextState(map, st, Moves[i].d) : i \in 1..Len(Moves)}

Produced ==
  IF ~Solving THEN {}
  ELSE {initialState} \cup
       (IF pc = "moves"
        THEN {state} \cup {[player |-> w.player, boxes |-> w.boxes, boxSet |-> w.boxSet] :
                             w \in {r \in Returned(state) : r.ok}}
        ELSE {})

(***************************************************************************)
(* Claims.                                                                 *)
(***************************************************************************)
InitialConfig == ConfigOf(initialState)

SolveReturned == outcome \in {"path", "null"}

\* C1: when a complete configuration is reachable by legal moves from the
\* parsed initial state, solve returns a path whose length is the least
\* number of legal moves to such a configuration.  Stated here for the
\* puzzles whose initial state is not itself complete.
C1_ShortestSolution ==
  (SolveReturned /\ ~Complete(InitialConfig) /\ Solvable(InitialConfig))
    => /\ outcome = "path"
       /\ Len(result) = MinMoves(InitialConfig)

\* C2: a returned path consists of the codes W, A, S, D, every step of its
\* replay from the initial state is a legal Sokoban step, and the replay
\* ends with every box on a goal.
C2_PathReplays ==
  outcome = "path" =>
    /\ \A i \in 1..Len(result) : result[i] \in {"W", "A", "S", "D"}
    /\ Replay(InitialConfig, result).ok
    /\ Complete(Replay(InitialConfig, result).cfg)

C2_Witness ==
  /\ outcome = "path"
  /\ Len(result) >= 3
  /\ Cardinality(InitialConfig.b) = 2
  /\ Replay(InitialConfig, result).cfg.b # InitialConfig.b

\* C3: solve returns null only when no sequence of one or more legal moves
\* leads from the initial state to a complete configuration.
C3_NullOnlyOnExhaustion ==
  outcome = "null" => ~SolvableByMoves(InitialConfig)

\* C4: isInvalid never flags a state from which a complete configuration is
\* reachable by legal moves.
C4_NoFalsePositive ==
  \A st \in Produced : isInvalid(map, st) => ~Solvable(ConfigOf(st))

\* C5: no state returned by nextState, push or plain move, is flagged by
\* isInvalid.
C5_ReturnedNeverFlagged ==
  pc = "moves" => \A w \in Returned(state) : w.ok => ~isInvalid(map, w)

\* What the claim expects of a step: null, a plain move or a push, with the
\* configuration it leads to.
C6_Expected(cfg, d) ==
  LET t == Plus(cfg.p, d)
      l == Plus(Plus(cfg.p, d), d)
  IN IF t \notin Grid \/ IsWall(t) THEN [kind |-> "null", cfg |-> cfg]
     ELSE IF t \in cfg.b
          THEN IF IsWall(l) \/ l \in cfg.b THEN [kind |-> "null", cfg |-> cfg]
               ELSE [kind |-> "push", cfg |-> [p |-> t, b |-> (cfg.b \ {t}) \cup {l}]]
          ELSE [kind |-> "move", cfg |-> [p |-> t, b |-> cfg.b]]

C6_Agrees(st, d) ==
  LET w == nextState(map, st, d)
      e == C6_Expected(ConfigOf(st), d)
  IN /\ e.kind = "null" => ~w.ok
     /\ (e.kind # "null" /\ w.ok) =>
          /\ ConfigOf(w) = e.cfg
          /\ Len(w.boxes) = Cardinality(e.cfg.b)
     /\ (e.kind = "move" /\ w.ok) => w.boxes = st.boxes
     /\ (e.kind # "null" /\ ~w.ok) =>
          isInvalid(map, [player |-> e.cfg.p, boxes |-> <<>>,
                          boxSet |-> {serializePoint(q) : q \in e.cfg.b}])

\* C6: nextState returns null when the target cell is off the grid or a
\* wall, or holds a box whose landing cell is a wall or another box;
\* otherwise, unless the deadlock detector rejects the result, a plain move
\* puts the player on the target cell with the boxes unchanged and a push
\* moves exactly the pushed box one cell further.
C6_StepAgrees ==
  pc = "moves" => \A d \in Directions : C6_Agrees(state, d)

C6_Witness ==
  /\ pc = "moves"
  /\ Len(state.boxes) = 2
  /\ \E d \in Directions :
        /\ C6_Expected(ConfigOf(state), d).kind = "push"
        /\ nextState(map, state, d).ok
  /\ \E d \in Directions :
        /\ Plus(state.player, d) \in PointsOf(state.boxes)
        /\ ~nextState(map, state, d).ok

C7_Valid(st) ==
  /\ \A i \in 1..Len(st.boxes) : ~IsWall(st.boxes[i])
  /\ \A i, j \in 1..Len(st.boxes) : i # j => st.boxes[i] # st.boxes[j]
  /\ Len(st.boxes) = Len(initialState.boxes)
  /\ st.boxSet = {serializePoint(q) : q \in PointsOf(st.boxes)}
  /\ st.player \in Grid
  /\ ~IsWall(st.player)
  /\ st.player \notin PointsOf(st.boxes)

\* C7: in the initial state and in every state the search produces, no box
\* is on a wall, no two boxes share a cell, the number of boxes is the
\* initial one, boxSet is the set of the boxes, and the player is on a cell
\* of the grid that is neither a wall nor a box.
C7_StateInvariant == \A st \in Produced : C7_Valid(st)

C7_Witness ==
  /\ pc = "moves"
  /\ Len(state.boxes) = 2
  /\ state.boxes # initialState.boxes
  /\ \E w \in Returned(state) : w.ok /\ w.boxes # state.boxes

\* C8: states with the same player and the same set of boxes have the same
\* serialization, states that differ in either have different ones, and no
\* configuration is stored in visited under two keys.
C8_Canonical ==
  /\ \A s1, s2 \in Produced :
        (ConfigOf(s1) = ConfigOf(s2)) <=> (serialize(s1) = serialize(s2))
  /\ Solving =>
        Cardinality({ConfigOf(deserialize(k)) : k \in DOMAIN visited})
          = Cardinality(DOMAIN visited)

\* A push after which the pushed box is not the last in canonical order.
C8_Witness ==
  /\ pc = "moves"
  /\ Cardinality(DOMAIN visited) >= 4
  /\ \E w \in Returned(state) :
        /\ w.ok
        /\ Len(w.boxes) = 2
        /\ w.boxes # state.boxes
        /\ w.boxes[2] \in PointsOf(state.boxes)

C9_Sorted(boxes) ==
  \A i, j \in 1..Len(boxes) :
     i < j => \/ boxes[i][2] < boxes[j][2]
              \/ (boxes[i][2] = boxes[j][2] /\ boxes[i][1] <= boxes[j][1])

\* C9: deserialize(serialize(state)) has the player and the set of boxes of
\* state, its boxes are in (y, then x) ascending order, and its boxSet is
\* the set of its boxes.
C9_RoundTrip ==
  cpc = "deserialized" =>
    /\ cback.player = cstate.player
    /\ PointsOf(cback.boxes) = PointsOf(cstate.boxes)
    /\ Len(cback.boxes) = Len(cstate.boxes)
    /\ C9_Sorted(cback.boxes)
    /\ cback.boxSet = {serializePoint(q) : q \in PointsOf(cback.boxes)}

C9_Witness ==
  /\ cpc = "deserialized"
  /\ Len(cstate.boxes) = 2
  /\ ~C9_Sorted(cstate.boxes)
  /\ cstate.boxes[1][1] = 10
  /\ cstate.boxes[2][2] = 0 - 1

C10_Corner(q) ==
  \E h \in {<<-1, 0>>, <<1, 0>>} : \E v \in {<<0, -1>>, <<0, 1>>} :
     IsWall(Plus(q, h)) /\ IsWall(Plus(q, v))

C10_CornerPuzzle ==
  /\ Solving
  /\ Len(initialState.boxes) = 1
  /\ ~IsGoal(initialState.boxes[1])
  /\ C10_Corner(initialState.boxes[1])

\* C10: when the only box starts off goal in a corner, every move from the
\* initial state is rejected: the frontier is empty after the initial layer
\* and solve returns null.
C10_CornerPruned ==
  C10_CornerPuzzle =>
    /\ outcome # "path"
    /\ (pc = "while" /\ distance >= 1) => Len(current) = 0

(***************************************************************************)
(* parseSokoban on its own, on every short text over a few characters and  *)
(* on the texts of the puzzles.                                            *)
(***************************************************************************)
ParseChars == {"#", "b", "w", "+", ".", "x", "\n", " "}

ShortTexts == UNION {[1..n -> ParseChars] : n \in 0..MaxTextLen}

ParseInit ==
  /\ input \in ShortTexts \cup Inputs
  /\ pc = "parse"
  /\ map = NoMap
  /\ initialState = NoState
  /\ distance = 0
  /\ visited = <<>>
  /\ current = <<>>
  /\ next = <<>>
  /\ idx = 0
  /\ state = NoState
  /\ outcome = "running"
  /\ result = <<>>
  /\ hooks = {}
  /\ calls = <<>>
  /\ inst = <<>>
  /\ CodecOff

ParseNull ==
  /\ pc = "parse"
  /\ ~parseSokoban(input).ok
  /\ outcome' = "parse_error"
  /\ pc' = "done"
  /\ UNCHANGED <<input, map, initialState, distance, visited, current, next,
                 idx, state, result>>
  /\ UNCHANGED codecVars
  /\ UNCHANGED <<hooks, calls, inst>>

ParseOk ==
  /\ pc = "parse"
  /\ parseSokoban(input).ok
  /\ map' = parseSokoban(input).map
  /\ initialState' = parseSokoban(input).state
  /\ outcome' = "parsed"
  /\ pc' = "done"
  /\ UNCHANGED <<input, distance, visited, current, next, idx, state, result>>
  /\ UNCHANGED codecVars
  /\ UNCHANGED <<hooks, calls, inst>>

ParseNext == ParseNull \/ ParseOk

SpecParse == ParseInit /\ [][ParseNext]_vars

\* The cells of a well-shaped grid of rows holding one of the given tiles.
C11_Cells(rows, tiles) ==
  {p \in (0..(Len(rows[1]) - 1)) \X (0..(Len(rows) - 1)) : tileAt(rows, p) \in tiles}

\* The player of the state: the last player tile in reading order.
C11_Player(rows) ==
  CHOOSE p \in C11_Cells(rows, {"w", "W"}) :
    \A q \in C11_Cells(rows, {"w", "W"}) :
       q[2] < p[2] \/ (q[2] = p[2] /\ q[1] <= p[1])

\* The cells joined to the seen ones by steps over cells that are not walls.
RECURSIVE C11_Closure(_, _)
C11_Closure(rows, seen) ==
  LET more == {q \in C11_Cells(rows, Tiles \ {"#"}) :
                 \E p \in seen : \E d \in {<<0, -1>>, <<-1, 0>>, <<0, 1>>, <<1, 0>>} :
                    q = <<p[1] + d[1], p[2] + d[2]>>}
  IN IF more \subseteq seen THEN seen ELSE C11_Closure(rows, seen \cup more)

\* The five reasons for null, on the trimmed non-blank rows of the text.
C11_Rejected(text) ==
  LET rows == splitRows(text)
  IN IF Len(rows) = 0 THEN TRUE
     ELSE IF \E i, j \in 1..Len(rows) : Len(rows[i]) # Len(rows[j]) THEN TRUE
     ELSE IF \E y \in 1..Len(rows) : \E x \in 1..Len(rows[y]) : rows[y][x] \notin Tiles THEN TRUE
     ELSE IF C11_Cells(rows, {"w", "W"}) = {} THEN TRUE
     ELSE ~(C11_Cells(rows, {"b", "B", "+", "W"})
              \subseteq C11_Closure(rows, {C11_Player(rows)}))

C11_Sorted(boxes) ==
  \A i, j \in 1..Len(boxes) :
     i < j => \/ boxes[i][2] < boxes[j][2]
              \/ (boxes[i][2] = boxes[j][2] /\ boxes[i][1] < boxes[j][1])

\* C11: parseSokoban returns null exactly when the text has no non-blank
\* row, rows of differing trimmed length, a character that is not a tile, no
\* player, or a box or goal that the player cannot reach over cells that are
\* not walls; otherwise it returns the map and the initial state of the
\* text, with the boxes in (y, then x) order.
C11_ParseResult ==
  pc = "done" =>
    /\ (outcome = "parse_error") <=> C11_Rejected(input)
    /\ outcome = "parsed" =>
         LET rows == splitRows(input)
         IN /\ map.width = Len(rows[1])
            /\ map.height = Len(rows)
            /\ map.wallSet = {serializePoint(q) : q \in C11_Cells(rows, {"#"})}
            /\ map.goalSet = {serializePoint(q) : q \in C11_Cells(rows, {"+", "B", "W"})}
            /\ initialState.player = C11_Player(rows)
            /\ PointsOf(initialState.boxes) = C11_Cells(rows, {"b", "B"})
            /\ C11_Sorted(initialState.boxes)
            /\ initialState.boxSet = {serializePoint(q) : q \in C11_Cells(rows, {"b", "B"})}

\* A grid of two rows is accepted: its box is reached only by a step up.
C11_Witness ==
  /\ pc = "done"
  /\ outcome = "parsed"
  /\ map.height >= 2
  /\ \E i \in 1..Len(initialState.boxes) :
        initialState.boxes[i][2] < initialState.player[2]

C12_Window(x, y) == {<<x - 1, y - 1>>, <<x, y - 1>>, <<x - 1, y>>, <<x, y>>}

C12_Frozen(cfg) ==
  \E y \in 1..(map.height - 1) : \E x \in 1..(map.width - 1) :
     /\ \A c \in C12_Window(x, y) : IsWall(c) \/ c \in cfg.b
     /\ \E c \in C12_Window(x, y) : c \in cfg.b /\ ~IsGoal(c)

\* C12: isInvalid is true exactly when some 2x2 window of the grid has its
\* four cells each a wall or a box and one of its own box cells off goal.
C12_WindowRule ==
  \A st \in Produced : isInvalid(map, st) <=> C12_Frozen(ConfigOf(st))

\* C13: isInvalid of main.ts never flags a state from which a complete
\* configuration is reachable by legal moves.
C13_MainSound ==
  \A st \in Produced : isInvalidMain(map, st) => ~Solvable(ConfigOf(st))

\* A box flagged by a corner test alone: no window is frozen.
C13_Witness ==
  \E st \in Produced :
     /\ isInvalidMain(map, st)
     /\ ~C12_Frozen(ConfigOf(st))
     /\ Len(st.boxes) = 2

\* The moves nextState accepts from the initial state, as indices of Moves.
C14_Accepted == {i \in 1..Len(Moves) : nextState(map, initialState, Moves[i].d).ok}

C14_Completing == {i \in C14_Accepted : isComplete(map, nextState(map, initialState, Moves[i].d))}

C14_InitialComplete == SolveReturned /\ isComplete(map, initialState)

\* C14 as stated: solve never returns the empty string; when the initial
\* state is complete it returns a one-move path if some move is accepted by
\* nextState, and null otherwise.
C14_OneMoveIfAccepted ==
  /\ outcome = "path" => Len(result) >= 1
  /\ C14_InitialComplete =>
       IF C14_Accepted # {} THEN outcome = "path" /\ Len(result) = 1
       ELSE outcome = "null"

\* C14 amended: solve never returns the empty string; when the initial state
\* is complete it returns the one-move path of the first accepted move, in
\* the order W, A, S, D, whose state is complete (every accepted move that
\* pushes no box is one), it returns no one-move path when no accepted move
\* is of that kind, and it returns null when no move is accepted.
C14_OneMoveIfCompleting ==
  /\ outcome = "path" => Len(result) >= 1
  /\ C14_InitialComplete =>
       /\ C14_Completing # {} =>
            /\ outcome = "path"
            /\ result = <<Moves[CHOOSE i \in C14_Completing :
                                  \A j \in C14_Completing : i <= j].code>>
       /\ C14_Completing = {} => ~(outcome = "path" /\ Len(result) = 1)
       /\ C14_Accepted = {} => outcome = "null"
       /\ \A i \in C14_Accepted :
            nextState(map, initialState, Moves[i].d).boxes = initialState.boxes
              => i \in C14_Completing

\* A complete initial state with boxes, a push that breaks completion tried
\* first, and a later plain move returned.
C14_Witness ==
  /\ C14_InitialComplete
  /\ Len(initialState.boxes) >= 1
  /\ outcome = "path"
  /\ Len(result) = 1
  /\ \E i \in C14_Accepted \ C14_Completing : Moves[i].code # result[1]

\* The frontier of layer distance holds paths of distance moves, the frontier
\* being built holds paths of distance + 1 moves, and no path is longer.
C15_Layers ==
  Solving =>
    /\ \A i \in 1..Len(current) :
         current[i] \in DOMAIN visited /\ Len(visited[current[i]]) = distance
    /\ pc \in {"for", "moves"} =>
         \A i \in 1..Len(next) :
           next[i] \in DOMAIN visited /\ Len(visited[next[i]]) = distance + 1
    /\ \A k \in DOMAIN visited : Len(visited[k]) <= distance + 1

\* A step keeps every entry as it is, and a new entry has the length of the
\* layer being built.
C15_Step ==
  /\ \A k \in DOMAIN visited : k \in DOMAIN visited' /\ visited'[k] = visited[k]
  /\ \A k \in DOMAIN visited' \ DOMAIN visited :
       Len(visited'[k]) = IF pc = "main" THEN 0 ELSE distance + 1

\* C15: the visited index only grows, an entry is never removed or
\* overwritten, and the path recorded for a state has the length of the layer
\* in which the state was first reached.
C15_VisitedGrows == [](C15_Layers) /\ [][C15_Step]_vars

\* In the third layer or later, a move of the expanded state leads to a state
\* that is already in the index.
C15_Witness ==
  /\ pc = "moves"
  /\ distance >= 2
  /\ Len(next) >= 1
  /\ \E i \in 1..Len(Moves) :
       LET w == nextState(map, state, Moves[i].d)
       IN /\ w.ok
          /\ serialize(w) \in DOMAIN visited
          /\ Len(visited[serialize(w)]) < distance

\* C16: solve terminates: it eventually returns a path or null (or the text
\* is rejected before solve is called).
\* No step leaves the program at the position it was taken at, which is
\* what the progress condition relies on.
C16_Terminates == <>(pc = "done") /\ [][pc' # pc]_vars

\* The frontier became empty after at least three layers.
C16_Witness ==
  /\ pc = "done"
  /\ outcome = "null"
  /\ distance >= 3
  /\ Len(initialState.boxes) >= 1

C17_DistanceCalls == {i \in 1..Len(calls) : calls[i].hook = "onDistance"}

C17_StepCalls == {i \in 1..Len(calls) : calls[i].hook = "onStep"}

\* The layer announced by the last onDistance call before call i.
C17_LayerOf(i) == Cardinality({j \in C17_DistanceCalls : j < i}) - 1

\* A layer is being expanded: solve is inside the for loop, or has returned
\* a path from inside it.
C17_InLayer == pc \in {"for", "moves"} \/ outcome = "path"

\* The number of states of the frontier whose onStep call has been made.
C17_Expanded == IF pc = "for" THEN idx - 1 ELSE idx

\* C17: onDistance is called once per layer with 0, 1, 2, ... and before the
\* onStep calls of the layer; onStep is called once for each expanded state
\* of the frontier, in the order of the frontier and before the state's moves
\* are tried; no configuration is passed to onStep twice.
C17_Hooks ==
  Solving =>
    /\ \A i \in C17_DistanceCalls :
         calls[i].arg = Cardinality({j \in C17_DistanceCalls : j < i})
    /\ Cardinality(C17_DistanceCalls) = IF C17_InLayer THEN distance + 1 ELSE distance
    /\ \A i \in C17_StepCalls :
         /\ serialize(calls[i].arg) \in DOMAIN visited
         /\ Len(visited[serialize(calls[i].arg)]) = C17_LayerOf(i)
    /\ \A d \in 0..(distance - 1) :
         Cardinality({i \in C17_StepCalls : C17_LayerOf(i) = d})
           = Cardinality({k \in DOMAIN visited : Len(visited[k]) = d})
    /\ C17_InLayer =>
         /\ Cardinality({i \in C17_StepCalls : C17_LayerOf(i) = distance}) = C17_Expanded
         /\ \A j \in 1..C17_Expanded :
              calls[Len(calls) - C17_Expanded + j] =
                [hook |-> "onStep", arg |-> deserialize(current[j])]
    /\ pc = "moves" => calls[Len(calls)] = [hook |-> "onStep", arg |-> state]
    /\ \A i, j \in C17_StepCalls : calls[i].arg = calls[j].arg => i = j

\* A finished search of at least three layers, one of them with two states.
C17_Witness ==
  /\ pc = "done"
  /\ Cardinality(C17_DistanceCalls) >= 3
  /\ \E d \in 0..distance :
       Cardinality({i \in C17_StepCalls : C17_LayerOf(i) = d}) >= 2
  /\ Len(initialState.boxes) >= 1

(***************************************************************************)
(* Two calls of solve on the same map and initial state.  A call runs      *)
(* without interruption from one await to the next; at an await the other  *)
(* call may run.  inst[i] holds the locals of call i.                      *)
(***************************************************************************)
Instances == {1, 2}

NoLocals ==
  [pc |-> "call", distance |-> 0, visited |-> <<>>, current |-> <<>>,
   next |-> <<>>, idx |-> 0, state |-> NoState, outcome |-> "running",
   result |-> <<>>]

\* visited.get(serializedState) inside a template literal.
visitedGet(vis, key) ==
  IF key \in DOMAIN vis THEN vis[key]
  ELSE <<"u", "n", "d", "e", "f", "i", "n", "e", "d">>

\* From the call to the first await onDistance.
enter(st) ==
  [NoLocals EXCEPT !.visited = [k \in {serialize(st)} |-> <<>>],
                   !.current = <<serialize(st)>>,
                   !.pc = "onDistance"]

\* From await onDistance to await onStep for the first state of the layer.
afterDistance(loc) ==
  [loc EXCEPT !.next = <<>>,
              !.idx = 1,
              !.state = deserialize(loc.current[1]),
              !.pc = "onStep"]

\* From await onStep through the four moves to the next await or the return.
afterStep(m, loc) ==
  LET acc == tryMoves(m, loc.state, visitedGet(loc.visited, loc.current[loc.idx]), 1,
                      [visited |-> loc.visited, next |-> loc.next,
                       returned |-> FALSE, result |-> <<>>])
  IN IF acc.returned
     THEN [loc EXCEPT !.pc = "done", !.outcome = "path", !.result = acc.result]
     ELSE IF loc.idx < Len(loc.current)
     THEN [loc EXCEPT !.visited = acc.visited,
                      !.next = acc.next,
                      !.idx = loc.idx + 1,
                      !.state = deserialize(loc.current[loc.idx + 1]),
                      !.pc = "onStep"]
     ELSE IF Len(acc.next) > 0
     THEN [loc EXCEPT !.visited = acc.visited,
                      !.next = acc.next,
                      !.idx = loc.idx + 1,
                      !.current = acc.next,
                      !.distance = loc.distance + 1,
                      !.pc = "onDistance"]
     ELSE [loc EXCEPT !.visited = acc.visited,
                      !.next = acc.next,
                      !.idx = loc.idx + 1,
                      !.current = acc.next,
                      !.distance = loc.distance + 1,
                      !.pc = "done",
                      !.outcome = "null"]

resume(m, st, loc) ==
  CASE loc.pc = "call" -> enter(st)
    [] loc.pc = "onDistance" -> afterDistance(loc)
    [] loc.pc = "onStep" -> afterStep(m, loc)
    [] OTHER -> loc

\* One visited index for both calls, the first call's.
visitedOwner_first(i) == 1

\* const visited is created by the call and local to it.
visitedOwner(i) == i

\* Call i runs to its next await.
resumeCall(i) ==
  LET r == resume(map, initialState,
                  [inst[i] EXCEPT !.visited = inst[visitedOwner(i)].visited])
  IN [j \in Instances |->
        [(IF j = i THEN r ELSE inst[j]) EXCEPT
           !.visited = IF j = visitedOwner(i) THEN r.visited ELSE inst[j].visited]]

\* The puzzles of the enclosed room, the last of Layouts.
PairLayout == Layouts[Len(Layouts)]

PairInputs ==
  UNION {
    UNION {
      {Render(PairLayout, boxes, goals, player) : player \in FreeCells(PairLayout) \ boxes}
      : goals \in {g \in SUBSET FreeCells(PairLayout) : Cardinality(g) <= MaxPairBoxes}}
    : boxes \in {b \in SUBSET FreeCells(PairLayout) : Cardinality(b) <= MaxPairBoxes}}

PairInit ==
  /\ input \in PairInputs
  /\ parseSokoban(input).ok
  /\ pc = "pair"
  /\ map = parseSokoban(input).map
  /\ initialState = parseSokoban(input).state
  /\ distance = 0
  /\ visited = <<>>
  /\ current = <<>>
  /\ next = <<>>
  /\ idx = 0
  /\ state = NoState
  /\ outcome = "running"
  /\ result = <<>>
  /\ hooks = {"onStep", "onDistance"}
  /\ calls = <<>>
  /\ inst = [i \in Instances |-> NoLocals]
  /\ CodecOff

PairCall(i) ==
  /\ inst[i].pc = "call"
  /\ inst' = resumeCall(i)
  /\ UNCHANGED <<input, pc, map, initialState, distance, visited, current, next,
                 idx, state, outcome, result, hooks, calls>>
  /\ UNCHANGED codecVars

PairAfterDistance(i) ==
  /\ inst[i].pc = "onDistance"
  /\ inst' = resumeCall(i)
  /\ UNCHANGED <<input, pc, map, initialState, distance, visited, current, next,
                 idx, state, outcome, result, hooks, calls>>
  /\ UNCHANGED codecVars

PairAfterStep(i) ==
  /\ inst[i].pc = "onStep"
  /\ inst' = resumeCall(i)
  /\ UNCHANGED <<input, pc, map, initialState, distance, visited, current, next,
                 idx, state, outcome, result, hooks, calls>>
  /\ UNCHANGED codecVars

PairNext ==
  \E i \in Instances :
    \/ PairCall(i)
    \/ PairAfterDistance(i)
    \/ PairAfterStep(i)

SpecPair == PairInit /\ [][PairNext]_vars

\* A call run on its own from the call to its return.
RECURSIVE runAlone(_, _, _)
runAlone(m, st, loc) ==
  IF loc.pc = "done" THEN loc ELSE runAlone(m, st, resume(m, st, loc))

\* A call that has returned has returned what it returns when run alone.
C18_SameResult ==
  \A i \in Instances :
    inst[i].pc = "done" =>
      /\ inst[i].outcome = runAlone(map, initialState, NoLocals).outcome
      /\ inst[i].result = runAlone(map, initialState, NoLocals).result

\* A step changes the locals of one call only and leaves the map and the
\* initial state as they are.
C18_OwnLocals ==
  /\ map' = map
  /\ initialState' = initialState
  /\ \E i \in Instances : \A j \in Instances \ {i} : inst'[j] = inst[j]

C19_BoxesInsideGrid ==
  \A st \in Produced :
    \A i \in 1..Len(st.boxes) :
      /\ st.boxes[i][1] \in 0..(map.width - 1)
      /\ st.boxes[i][2] \in 0..(map.height - 1)

C20_Codes == {"W", "A", "S", "D"}

\* The order W < A < S < D.
C20_Rank(c) == CASE c = "W" -> 1 [] c = "A" -> 2 [] c = "S" -> 3 [] OTHER -> 4

C20_State(w) == [player |-> w.player, boxes |-> w.boxes, boxSet |-> w.boxSet]

\* The states nextState returns for the states of S.
C20_Succ(S) ==
  UNION {{C20_State(nextState(map, s, DirOf(c))) :
            c \in {c \in C20_Codes : nextState(map, s, DirOf(c)).ok}} : s \in S}

\* The states at the end of the accepted strings of exactly k moves from S.
RECURSIVE C20_After(_, _)
C20_After(S, k) == IF k = 0 THEN S ELSE C20_After(C20_Succ(S), k - 1)

C20_CompleteAfter(S, k) == \E s \in C20_After(S, k) : isComplete(map, s)

RECURSIVE C20_Closure(_)
C20_Closure(S) ==
  LET T == S \cup C20_Succ(S) IN IF T = S THEN S ELSE C20_Closure(T)

\* The state at the end of a move string, ok = FALSE if a move is not accepted.
RECURSIVE C20_Run(_, _)
C20_Run(st, path) ==
  IF Len(path) = 0 THEN [ok |-> TRUE, st |-> st]
  ELSE LET w == nextState(map, st, DirOf(Head(path)))
       IN IF w.ok THEN C20_Run(C20_State(w), Tail(path))
          ELSE [ok |-> FALSE, st |-> st]

\* An accepted string of Len(result) moves to a complete state that differs
\* from result at position i, where it has the code c.
C20_Rival(i, c) ==
  LET r == C20_Run(initialState, Append(SubSeq(result, 1, i - 1), c))
  IN r.ok /\ C20_CompleteAfter({r.st}, Len(result) - i)

\* C20: the returned string is accepted by nextState step by step and ends in
\* a complete state, no shorter non-empty string does, and no string of the
\* same length that does comes before it in the order W < A < S < D; when
\* such strings exist solve returns one.
C20_LexFirst ==
  /\ outcome = "path" =>
       /\ Len(result) >= 1
       /\ C20_Run(initialState, result).ok
       /\ isComplete(map, C20_Run(initialState, result).st)
       /\ \A k \in 1..(Len(result) - 1) : ~C20_CompleteAfter({initialState}, k)
       /\ \A i \in 1..Len(result) :
            \A c \in C20_Codes : C20_Rank(c) < C20_Rank(result[i]) => ~C20_Rival(i, c)
  /\ outcome = "null" =>
       \A s \in C20_Closure(C20_Succ({initialState})) : ~isComplete(map, s)

\* A path of three moves or more returned where a string of the same length
\* that comes later in the order also leads to a complete state.
C20_Witness ==
  /\ outcome = "path"
  /\ Len(result) >= 3
  /\ \E i \in 1..Len(result) :
       \E c \in C20_Codes : C20_Rank(c) > C20_Rank(result[i]) /\ C20_Rival(i, c)

====
